---- MODULE Spec2Model ----
(***************************************************************************)
(* Flight Deal Finder (src/app.py): a Streamlit script that is re-run from *)
(* top to bottom on every user interaction.  Modelled here:                *)
(*   - the memoized loaders (st.cache_resource / st.cache_data with ttl),  *)
(*   - the render cycle of the script (halt, crash or done),               *)
(*   - the filter conjunction applied to the flight table,                 *)
(*   - the history listing, its labels and the label -> key mapping.       *)
(* A blob name and a label are strings; a string is modelled as a sequence *)
(* of tokens, so that str.replace, str.endswith, strptime and strftime are *)
(* computed on the text rather than assumed.                               *)
(***************************************************************************)
EXTENDS Integers, Sequences, FiniteSets, TLC

VARIABLES
    client,      \* st.cache_resource entry of get_blob_service_client
    cache,       \* st.cache_data store: one slot per memoized call
    view,        \* what the last run of the script computed and rendered
    fltDf,       \* filter engine: the flight table df
    fltCrit,     \* filter engine: the state of the four sidebar widgets
    fltOut,      \* filter engine: filtered_df of the last run
    histEnum,    \* history catalog: the blobs as list_blobs enumerates them
    histOut      \* history catalog: listing, menu and mapping computed from it

vars == <<client, cache, view, fltDf, fltCrit, fltOut, histEnum, histOut>>

(***************************************************************************)
(* Strings as token sequences                                              *)
(***************************************************************************)
\* A literal piece of text.
Lit(text) == [k |-> "lit", t |-> text, d |-> 0, m |-> 0, s |-> 0]

\* The text <YYYY-MM-DD>_<HHMMSS> of day d, minute m, second s.  form is
\* "padded" for 2024-01-05 and "bare" for 2024-1-5, which strptime also reads.
Stamp(form, d, m, s) == [k |-> "ts", t |-> form, d |-> d, m |-> m, s |-> s]

\* The text strftime('%b %d, %Y at %I:%M %p') writes: minute resolution.
Fmt(d, m) == [k |-> "fmt", t |-> "", d |-> d, m |-> m, s |-> 0]

PREFIX == Lit("history/")
FLIGHTS == Lit("flights_")
CSV == Lit(".csv")
CURRENT == <<Lit("Current")>>

\* str.replace(tok, ''): every occurrence of tok is removed.
Replace(str, tok) == SelectSeq(str, LAMBDA x : x # tok)

\* str.endswith(tok)
EndsWith(str, tok) == Len(str) > 0 /\ str[Len(str)] = tok

(***************************************************************************)
(* History catalog: get_history_files, format_history_name, the menu       *)
(***************************************************************************)
HistoryMenuMax == 10

Min(a, b) == IF a <= b THEN a ELSE b

\* The position x takes in the descending list acc when list.sort(key =
\* last_modified, reverse = True) places it: after every element whose
\* last_modified is >= its own (the sort is stable, also when reversed).
InsertPosMutant(acc, x) ==
    Cardinality({i \in 1..Len(acc) : acc[i].last_modified <= x.last_modified})

InsertPos(acc, x) ==
    Cardinality({i \in 1..Len(acc) : acc[i].last_modified >= x.last_modified})

RECURSIVE SortByLastModifiedDesc(_)
SortByLastModifiedDesc(blobs) ==
    IF blobs = <<>> THEN <<>>
    ELSE LET n == Len(blobs)
             acc == SortByLastModifiedDesc(SubSeq(blobs, 1, n - 1))
             p == InsertPos(acc, blobs[n])
         IN SubSeq(acc, 1, p) \o <<blobs[n]>> \o SubSeq(acc, p + 1, Len(acc))

\* The body of get_history_files on a successful enumeration.
ListHistoryFiles(enum) ==
    SortByLastModifiedDesc(SelectSeq(enum, LAMBDA b : EndsWith(b.name, CSV)))

\* datetime.strptime(timestamp_str, '%Y-%m-%d_%H%M%S') succeeds
ParsesAsTimestamp(str) == Len(str) = 1 /\ str[1].k = "ts"

FormatHistoryName(blob_info) ==
    LET filename == Replace(Replace(blob_info.name, PREFIX), CSV)
        timestamp_str == Replace(Replace(filename, FLIGHTS), CSV)
    IN IF ParsesAsTimestamp(timestamp_str)
       THEN <<Fmt(timestamp_str[1].d, timestamp_str[1].m)>>
       ELSE filename

\* history_files[1:]
OlderFiles(history_files) == SubSeq(history_files, 2, Len(history_files))

\* older_files[:10]
OfferedMutant(history_files) ==
    SubSeq(history_files, 1, Min(HistoryMenuMax, Len(history_files)))

Offered(history_files) ==
    SubSeq(OlderFiles(history_files), 1,
           Min(HistoryMenuMax, Len(OlderFiles(history_files))))

\* [format_history_name(f) for f in older_files[:10]]
Labels(history_files) ==
    <<>> \o [i \in 1..Len(Offered(history_files)) |->
                FormatHistoryName(Offered(history_files)[i])]

\* display_options
DisplayOptions(history_files) == <<CURRENT>> \o Labels(history_files)

\* filename_mapping: a dict comprehension, so the last entry with a label wins.
FilenameMappingMutant(history_files) ==
    LET off == Offered(history_files)
        labels == Labels(history_files)
        last(l) == CHOOSE i \in 1..Len(off) :
                      labels[i] = l /\ \A j \in (i + 1)..Len(off) : labels[j] # l
    IN [l \in {labels[i] : i \in 1..Len(off)} |-> Replace(off[last(l)].name, PREFIX)]

FilenameMapping(history_files) ==
    LET off == Offered(history_files)
        labels == Labels(history_files)
        last(l) == CHOOSE i \in 1..Len(off) :
                      labels[i] = l /\ \A j \in (i + 1)..Len(off) : labels[j] # l
    IN [l \in {labels[i] : i \in 1..Len(off)} |-> off[last(l)].name]

(***************************************************************************)
(* Filter engine: the flight table and the four sidebar widgets            *)
(***************************************************************************)
\* 'Price (numeric)' holds decimals: a price p stands for p / PriceScale pounds.
PriceScale == 2
Prices == {2, 3}
MaxRows == 2

Destinations == {"Paris", "Rome"}
Airlines == {"BA", "EZY"}
StopCounts == {0, 1}

Rows ==
    [dest : Destinations, price : Prices, airline : Airlines, stops : StopCounts]

RECURSIVE SeqsUpTo(_, _)
SeqsUpTo(S, n) ==
    IF n = 0 THEN {<<>>}
    ELSE LET shorter == SeqsUpTo(S, n - 1)
         IN shorter \cup {Append(q, x) : q \in {r \in shorter : Len(r) = n - 1}, x \in S}

Column(df, col) == {df[i][col] : i \in 1..Len(df)}

SetMax(S) == CHOOSE x \in S : \A y \in S : y <= x

\* math.ceil(df['Price (numeric)'].max()), in whole pounds
MaxPriceValue(df) == (SetMax(Column(df, "price")) + PriceScale - 1) \div PriceScale

\* The widgets as the script creates them: full range, nothing selected.
DefaultCriteria(df) ==
    [min_price |-> 0, max_price |-> MaxPriceValue(df),
     selected_destinations |-> {}, selected_airlines |-> {}, direct_only |-> FALSE]

\* df[(df['Price (numeric)'] >= min_price) & (df['Price (numeric)'] <= max_price)]
FilterByPriceMutant(df, min_price, max_price) ==
    SelectSeq(df, LAMBDA r : /\ r.price >= min_price * PriceScale
                             /\ r.price < max_price * PriceScale)

FilterByPrice(df, min_price, max_price) ==
    SelectSeq(df, LAMBDA r : /\ r.price >= min_price * PriceScale
                             /\ r.price <= max_price * PriceScale)

\* filtered_df after the three conditional filters that follow the price filter
ApplyFilters(df, c) ==
    LET byPrice == FilterByPrice(df, c.min_price, c.max_price)
        byDest == IF c.selected_destinations # {}
                  THEN SelectSeq(byPrice, LAMBDA r : r.dest \in c.selected_destinations)
                  ELSE byPrice
        byAirline == IF c.selected_airlines # {}
                     THEN SelectSeq(byDest, LAMBDA r : r.airline \in c.selected_airlines)
                     ELSE byDest
    IN IF c.direct_only
       THEN SelectSeq(byAirline, LAMBDA r : r.stops = 0)
       ELSE byAirline

FilterIdle == [ran |-> FALSE, filtered_df |-> <<>>]

\* The price slider is moved: the script re-runs with the new range.
SetPriceRange ==
    \E lo \in 0..MaxPriceValue(fltDf), hi \in 0..MaxPriceValue(fltDf) :
        /\ lo <= hi
        /\ fltCrit' = [fltCrit EXCEPT !.min_price = lo, !.max_price = hi]
        /\ fltOut' = [ran |-> TRUE, filtered_df |-> ApplyFilters(fltDf, fltCrit')]
        /\ UNCHANGED <<client, cache, view, fltDf, histEnum, histOut>>

\* The destination multiselect changes; its options are the table's values.
SetDestinations ==
    \E sel \in SUBSET Column(fltDf, "dest") :
        /\ fltCrit' = [fltCrit EXCEPT !.selected_destinations = sel]
        /\ fltOut' = [ran |-> TRUE, filtered_df |-> ApplyFilters(fltDf, fltCrit')]
        /\ UNCHANGED <<client, cache, view, fltDf, histEnum, histOut>>

\* The airline multiselect changes.
SetAirlines ==
    \E sel \in SUBSET Column(fltDf, "airline") :
        /\ fltCrit' = [fltCrit EXCEPT !.selected_airlines = sel]
        /\ fltOut' = [ran |-> TRUE, filtered_df |-> ApplyFilters(fltDf, fltCrit')]
        /\ UNCHANGED <<client, cache, view, fltDf, histEnum, histOut>>

\* The 'Direct flights only' checkbox is toggled.
ToggleDirectOnly ==
    /\ fltCrit' = [fltCrit EXCEPT !.direct_only = ~fltCrit.direct_only]
    /\ fltOut' = [ran |-> TRUE, filtered_df |-> ApplyFilters(fltDf, fltCrit')]
    /\ UNCHANGED <<client, cache, view, fltDf, histEnum, histOut>>

(***************************************************************************)
(* Memoized loaders                                                        *)
(***************************************************************************)
\* ttl of load_flight_data and load_metadata, of get_history_files and
\* load_history_file, in seconds.
TTL_DATA == 1800
TTL_HISTORY == 3600

\* Seconds that pass in one step of the clock.
TickStep == 1800

\* A loader's return value.  none is Python's None; tag tells the shapes of a
\* value apart; rows holds a table's rows or a listing's blobs; n holds
\* metadata['destinations_searched'].
NoneV == [none |-> TRUE, tag |-> "None", rows |-> <<>>, n |-> 0]
Df(tag, rows) == [none |-> FALSE, tag |-> tag, rows |-> rows, n |-> 0]
Meta(tag, n) == [none |-> FALSE, tag |-> tag, rows |-> <<>>, n |-> n]
Listing(blobs) == [none |-> FALSE, tag |-> "list", rows |-> blobs, n |-> 0]

\* if metadata:  (None and the empty JSON object {} are falsy)
Truthy(metadata) == ~metadata.none /\ metadata.tag # "empty"

\* The memoized calls: one slot per function and argument.
FLIGHT == <<Lit("load_flight_data")>>
META == <<Lit("load_metadata")>>
HIST == <<Lit("get_history_files")>>
SnapSlot(blob_name) == blob_name

\* history/flights_<day d>_000000.csv, last modified on day d
ArchiveName(d) == <<PREFIX, FLIGHTS, Stamp("padded", d, 0, 0), CSV>>
ArchiveBlob(d) == [name |-> ArchiveName(d), last_modified |-> d]
Archive(n) == [d \in 1..n |-> ArchiveBlob(d)]

MaxArchive == HistoryMenuMax + 2
Slots == {FLIGHT, META, HIST} \cup {SnapSlot(ArchiveName(d)) : d \in 1..MaxArchive + 1}

TtlOf(slot) == IF slot \in {FLIGHT, META} THEN TTL_DATA ELSE TTL_HISTORY

Absent == [present |-> FALSE, age |-> 0, failed |-> FALSE, v |-> NoneV]
EmptyCache == [slot \in Slots |-> Absent]

\* st.cache_data.clear(): every entry of every function goes; the
\* st.cache_resource entry (the client) is not part of it.
CacheDataClearMutant(c) == [slot \in Slots |-> IF slot \in {FLIGHT, META} THEN Absent ELSE c[slot]]

CacheDataClear(c) == [slot \in Slots |-> Absent]

\* get_blob_service_client under st.cache_resource: the first call decides,
\* for good, between a client and None (missing secret or any exception).
\* made is what that first call produces, "ok" or "none".
GetBlobServiceClient(c, made) == IF c = "unset" THEN made ELSE c

\* A function under st.cache_data.  st is the memo state before the call, o
\* the result its body produces if it runs holding a client, onNone what it
\* returns without one.  A stored entry is returned as it is, whatever it
\* holds; otherwise the body runs and its return value is stored.
Memo(st, slot, o, onNone, made) ==
    LET c == GetBlobServiceClient(st.client, made)
        out == IF c = "none" THEN [v |-> onNone, failed |-> TRUE] ELSE o
    IN IF st.cache[slot].present
       THEN [client |-> st.client, cache |-> st.cache, v |-> st.cache[slot].v,
             failed |-> st.cache[slot].failed, executed |-> FALSE, fetched |-> FALSE]
       ELSE [client |-> c,
             cache |-> [st.cache EXCEPT ![slot] =
                           [present |-> TRUE, age |-> 0, failed |-> out.failed, v |-> out.v]],
             v |-> out.v, failed |-> out.failed, executed |-> TRUE, fetched |-> c = "ok"]

Ok(v) == [v |-> v, failed |-> FALSE]
Failure(v) == [v |-> v, failed |-> TRUE]

\* What the storage may hold or do when a loader's body runs.
ValidTable ==
    <<[dest |-> "Paris", price |-> 1, airline |-> "BA", stops |-> 0],
      [dest |-> "Rome", price |-> 3, airline |-> "EZY", stops |-> 1],
      [dest |-> "Paris", price |-> 2, airline |-> "EZY", stops |-> 0]>>

FlightOutcomes ==
    {Failure(NoneV), Ok(Df("ok", ValidTable)), Ok(Df("ok", <<>>)), Ok(Df("nocols", <<>>))}

MetaOutcomes ==
    {Failure(NoneV), Ok(Meta("valid", 5)), Ok(Meta("empty", 0)),
     Ok(Meta("no_last_updated", 5)), Ok(Meta("bad_last_updated", 5)),
     Ok(Meta("no_destinations_searched", 0))}

HistoryOutcomes(sizes) ==
    {Failure(Listing(<<>>))} \cup {Ok(Listing(ListHistoryFiles(Archive(n)))) : n \in sizes}

SnapshotOutcomes == {Failure(NoneV), Ok(Df("ok", ValidTable))}

(***************************************************************************)
(* One run of the script                                                   *)
(***************************************************************************)
Range(f) == {f[i] : i \in DOMAIN f}

NoMapping == [l \in {} |-> <<>>]

BlankView ==
    [outcome |-> "none", after_clear |-> FALSE,
     df |-> NoneV, metadata |-> NoneV,
     called |-> {}, executed |-> {}, fetched |-> {}, failed |-> {},
     elements |-> {}, destinations_metric |-> -1, filtered_df |-> <<>>,
     history_files |-> <<>>, display_options |-> <<>>, filename_mapping |-> NoMapping,
     selected_display |-> CURRENT, actual_blob_name |-> <<>>,
     history_select |-> CURRENT]

\* The view after one more memoized call r of slot.
Note(vw, slot, r) ==
    [vw EXCEPT !.called = @ \cup {slot},
               !.executed = IF r.executed THEN @ \cup {slot} ELSE @,
               !.fetched = IF r.fetched THEN @ \cup {slot} ELSE @,
               !.failed = IF r.failed THEN @ \cup {slot} ELSE @,
               !.elements = IF r.failed THEN @ \cup {"st.error"} ELSE @]

End(r, vw, outcome) == [client |-> r.client, cache |-> r.cache, view |-> [vw EXCEPT !.outcome = outcome]]

\* st.selectbox(options = display_options, index = 0, key = 'history_select'):
\* the value held under the key when it is one of the options, else option 0.
SelectboxMutant(options, held) == held

Selectbox(options, held) == IF held \in Range(options) THEN held ELSE options[1]

\* Lines 324-335: the reverse lookup and the snapshot load.
ShowHistorical(r, vw, ch) ==
    IF vw.selected_display # CURRENT /\ DOMAIN vw.filename_mapping # {}
    THEN IF vw.selected_display \notin DOMAIN vw.filename_mapping
         THEN End(r, vw, "crashed")
         ELSE LET name == vw.filename_mapping[vw.selected_display]
                  h == Memo([client |-> r.client, cache |-> r.cache],
                            SnapSlot(name), ch.snap, NoneV, ch.client)
              IN End(h, [Note(vw, SnapSlot(name), h) EXCEPT
                            !.actual_blob_name = name,
                            !.elements = IF h.v.none THEN @ ELSE @ \cup {"past_prices"}],
                     "done")
    ELSE End(r, vw, "done")

\* Lines 292-321: the Historical Data expander.
HistoricalData(r, vw, ch) ==
    LET h == Memo([client |-> r.client, cache |-> r.cache], HIST,
                  ch.hist, Listing(<<>>), ch.client)
        history_files == h.v.rows
        display_options == DisplayOptions(history_files)
        selected_display == Selectbox(display_options, vw.history_select)
        v1 == [Note(vw, HIST, h) EXCEPT !.history_files = history_files]
        v2 == IF Len(history_files) > 1
              THEN [v1 EXCEPT
                      !.elements = @ \cup {"older_price_checks", "selectbox"},
                      !.display_options = display_options,
                      !.filename_mapping = FilenameMapping(history_files),
                      !.selected_display = selected_display,
                      !.history_select = selected_display]
              ELSE [v1 EXCEPT !.elements = @ \cup {"no_older_price_data"}]
    IN ShowHistorical(h, v2, ch)

\* Lines 190-287: the sidebar filters (left as created) and the results.
FiltersAndResults(r, vw, ch) ==
    IF vw.df.rows = <<>>
    THEN End(r, vw, "crashed")
    ELSE LET filtered_df == ApplyFilters(vw.df.rows, DefaultCriteria(vw.df.rows))
         IN HistoricalData(r,
                [vw EXCEPT !.filtered_df = filtered_df,
                           !.elements = @ \cup {"filters"}
                               \cup (IF Len(filtered_df) = 0
                                     THEN {"no_flights_match"}
                                     ELSE {"results_table", "download_button"})],
                ch)

\* Lines 174-188: the summary statistics.
SummaryStatistics(r, vw, ch) ==
    IF vw.df.tag = "nocols"
    THEN End(r, vw, "crashed")
    ELSE IF Truthy(vw.metadata) /\ vw.metadata.tag = "no_destinations_searched"
    THEN End(r, vw, "crashed")
    ELSE FiltersAndResults(r,
             [vw EXCEPT !.elements = @ \cup {"summary_statistics"},
                        !.destinations_metric =
                            IF Truthy(vw.metadata)
                            THEN vw.metadata.n
                            ELSE Cardinality(Column(vw.df.rows, "dest"))],
             ch)

\* Lines 141-172 up to the button: "halted", "crashed", "button" when the
\* Refresh Data button is drawn, "plain" when the banner is skipped.
BannerMutant(df, metadata) ==
    IF df.none THEN "halted"
    ELSE IF metadata.tag \in {"no_last_updated", "bad_last_updated"} THEN "crashed"
    ELSE "button"

Banner(df, metadata) ==
    IF df.none THEN "halted"
    ELSE IF ~Truthy(metadata) THEN "plain"
    ELSE IF metadata.tag \in {"no_last_updated", "bad_last_updated"} THEN "crashed"
    ELSE "button"

\* The script from line 141 on, the two loads done (m is the state after
\* both) and the button, if drawn, not pressed.
AfterLoads(m, vw, ch) ==
    LET b == Banner(vw.df, vw.metadata)
    IN IF b = "halted"
       THEN End(m, [vw EXCEPT !.elements = @ \cup {"unable_to_load"}], "halted")
       ELSE IF b = "crashed" THEN End(m, vw, "crashed")
       ELSE SummaryStatistics(m,
                [vw EXCEPT !.elements = IF b = "button"
                                        THEN @ \cup {"last_updated", "refresh_button"}
                                        ELSE @],
                ch)

\* Lines 137-139: the two loads; the result is the pair <<state, view>>.
Loads(st, held, ch) ==
    LET f == Memo(st, FLIGHT, ch.flight, NoneV, ch.client)
        m == Memo([client |-> f.client, cache |-> f.cache], META, ch.meta, NoneV, ch.client)
    IN <<m, [Note(Note([BlankView EXCEPT !.history_select = held], FLIGHT, f), META, m)
                EXCEPT !.df = f.v, !.metadata = m.v]>>

\* A whole run of the script in which the button is not pressed.  ch holds
\* what the storage answers to each call that reaches it in this run.
RunScript(st, held, ch) ==
    LET p == Loads(st, held, ch)
    IN AfterLoads(p[1], p[2], ch)

\* A run in which the button was pressed: when the run reaches the button,
\* st.cache_data.clear() and st.rerun(), a whole run answered by ch2; when it
\* does not reach it, the press is lost and the run goes on.
RunScriptPressed(st, held, ch, ch2) ==
    LET p == Loads(st, held, ch)
    IN IF Banner(p[2].df, p[2].metadata) = "button"
       THEN LET r == RunScript([client |-> p[1].client,
                                cache |-> CacheDataClear(p[1].cache)], held, ch2)
            IN [r EXCEPT !.view.after_clear = TRUE]
       ELSE AfterLoads(p[1], p[2], ch)

(***************************************************************************)
(* The dashboard: interactions and the clock                               *)
(***************************************************************************)
\* Positions of the history menu a user picks from: the sentinel and the
\* first MaxPick labels after it.
MaxPick == 1

PickPositions(options) == {i \in 1..Len(options) : i <= 1 + MaxPick}

\* What the storage is seen to hold in the two specifications of the dashboard.
LoadsWorld == [flights |-> FlightOutcomes, metas |-> MetaOutcomes, sizes |-> {0, 3}]

MenuWorld ==
    [flights |-> {Failure(NoneV), Ok(Df("ok", ValidTable))},
     metas |-> {Ok(Meta("valid", 5))},
     sizes |-> {1, 3, 4, MaxArchive}]

Became(r) ==
    /\ client' = r.client
    /\ cache' = r.cache
    /\ view' = r.view
    /\ UNCHANGED <<fltDf, fltCrit, fltOut, histEnum, histOut>>

Now == [client |-> client, cache |-> cache]

\* The answers the storage can give in one run that starts from memo state
\* st: one per call that asks; a call served from the store, or one the run
\* does not get to, asks nothing.
NoAnswer == Failure(NoneV)

Asked(st, slot, outs) == IF st.cache[slot].present THEN {NoAnswer} ELSE outs

Answers(st, w) ==
    UNION {IF HIST \in RunScript(st, CURRENT, c).view.called
           THEN {[c EXCEPT !.hist = h, !.snap = s]
                 : h \in Asked(st, HIST, HistoryOutcomes(w.sizes)), s \in SnapshotOutcomes}
           ELSE {c}
           : c \in [client : IF st.client = "unset" THEN {"ok", "none"} ELSE {st.client},
                    flight : Asked(st, FLIGHT, w.flights),
                    meta : Asked(st, META, w.metas),
                    hist : {NoAnswer},
                    snap : {NoAnswer}]}

Cleared == [client |-> "ok", cache |-> EmptyCache]

\* The page is opened in a new browser session: no widget state.
OpenPage(w) == \E ch \in Answers(Now, w) : Became(RunScript(Now, CURRENT, ch))

\* Any interaction that leaves the history picker and the button alone.
Rerun(w) ==
    /\ view.outcome # "none"
    /\ \E ch \in Answers(Now, w) : Became(RunScript(Now, view.history_select, ch))

\* The user picks an entry of the history menu shown by the last run.
SelectHistory(w) ==
    /\ "selectbox" \in view.elements
    /\ \E i \in PickPositions(view.display_options), ch \in Answers(Now, w) :
          Became(RunScript(Now, view.display_options[i], ch))

\* The user presses Refresh Data, which the last run drew.
ClickRefresh(w) ==
    /\ "refresh_button" \in view.elements
    /\ \E ch \in Answers(Now, w) :
          \E ch2 \in IF "refresh_button" \in Loads(Now, CURRENT, ch)[2].elements
                        \/ Banner(Loads(Now, CURRENT, ch)[2].df,
                                  Loads(Now, CURRENT, ch)[2].metadata) = "button"
                     THEN Answers(Cleared, w) ELSE {ch} :
              Became(RunScriptPressed(Now, view.history_select, ch, ch2))

\* An entry leaves the store when its age reaches the ttl of its function.
Expired(slot, age) == age >= TtlOf(slot)

\* TickStep seconds pass.
Tick ==
    /\ cache' = [slot \in Slots |->
                    IF ~cache[slot].present THEN Absent
                    ELSE IF Expired(slot, cache[slot].age + TickStep) THEN Absent
                    ELSE [cache[slot] EXCEPT !.age = @ + TickStep]]
    /\ UNCHANGED <<client, view, fltDf, fltCrit, fltOut, histEnum, histOut>>

NoCriteria ==
    [min_price |-> 0, max_price |-> 0,
     selected_destinations |-> {}, selected_airlines |-> {}, direct_only |-> FALSE]

HistIdle ==
    [listed |-> FALSE, history_files |-> <<>>, display_options |-> <<>>,
     filename_mapping |-> NoMapping, selected_display |-> CURRENT,
     actual_blob_name |-> <<>>]

DashboardInit ==
    /\ client = "unset"
    /\ cache = EmptyCache
    /\ view = BlankView

FilterUnused == fltDf = <<>> /\ fltCrit = NoCriteria /\ fltOut = FilterIdle
HistoryUnused == histEnum = <<>> /\ histOut = HistIdle

Init == DashboardInit /\ FilterUnused /\ HistoryUnused

Next ==
    \/ OpenPage(LoadsWorld)
    \/ Rerun(LoadsWorld)
    \/ SelectHistory(LoadsWorld)
    \/ ClickRefresh(LoadsWorld)
    \/ Tick

Spec == Init /\ [][Next]_vars

NextMenu ==
    \/ OpenPage(MenuWorld)
    \/ Rerun(MenuWorld)
    \/ SelectHistory(MenuWorld)
    \/ ClickRefresh(MenuWorld)
    \/ Tick

SpecMenu == Init /\ [][NextMenu]_vars

(***************************************************************************)
(* The filter engine on its own: every small table, every widget state     *)
(***************************************************************************)
DashboardUnused == client = "unset" /\ cache = EmptyCache /\ view = BlankView

Tables == SeqsUpTo(Rows, MaxRows) \ {<<>>}

InitFilter ==
    /\ fltDf \in Tables
    /\ fltCrit = DefaultCriteria(fltDf)
    /\ fltOut = FilterIdle
    /\ DashboardUnused
    /\ HistoryUnused

NextFilter == SetPriceRange \/ SetDestinations \/ SetAirlines \/ ToggleDirectOnly

SpecFilter == InitFilter /\ [][NextFilter]_vars

(***************************************************************************)
(* The history catalog on its own: every small enumeration of the storage  *)
(***************************************************************************)
MaxEnum == 3

LastModifieds == {1, 2}

\* Names of the documented pattern, and names that are not: an unpadded
\* date, no flights_ part, free text, text that reads like a label, the
\* sentinel's text, and an object that is no CSV.
PatternNames == {<<PREFIX, FLIGHTS, Stamp("padded", 1, m, s), CSV>> : m \in 0..1, s \in 0..1}

OddNames ==
    {<<PREFIX, FLIGHTS, Stamp("bare", 1, 0, 0), CSV>>,
     <<PREFIX, Lit("notes"), CSV>>,
     <<PREFIX, Fmt(1, 0), CSV>>,
     <<PREFIX, Lit("Current"), CSV>>,
     <<PREFIX, FLIGHTS, Stamp("padded", 1, 1, 1), Lit(".json")>>}

Blobs == [name : PatternNames \cup OddNames, last_modified : LastModifieds]

DistinctNames(enum) == \A i, j \in 1..Len(enum) : enum[i].name = enum[j].name => i = j

Reverse(q) == [i \in 1..Len(q) |-> q[Len(q) + 1 - i]]

Enumerations ==
    {e \in SeqsUpTo(Blobs, MaxEnum) : DistinctNames(e)}
        \cup {Archive(n) : n \in 0..MaxArchive}
        \cup {Reverse(Archive(n)) : n \in 0..MaxArchive}

\* get_history_files and the menu built from its result (lines 297-312).
ListSnapshots ==
    /\ ~histOut.listed
    /\ histOut' =
          LET history_files == ListHistoryFiles(histEnum)
          IN IF Len(history_files) > 1
             THEN [listed |-> TRUE, history_files |-> history_files,
                   display_options |-> DisplayOptions(history_files),
                   filename_mapping |-> FilenameMapping(history_files),
                   selected_display |-> CURRENT, actual_blob_name |-> <<>>]
             ELSE [HistIdle EXCEPT !.listed = TRUE, !.history_files = history_files]
    /\ UNCHANGED <<client, cache, view, fltDf, fltCrit, fltOut, histEnum>>

\* The user picks a label of the menu; lines 324-325 look it up.
Resolve ==
    /\ histOut.listed
    /\ \E i \in 1..Len(histOut.display_options) :
          histOut' =
              [histOut EXCEPT
                 !.selected_display = histOut.display_options[i],
                 !.actual_blob_name =
                     IF histOut.display_options[i] # CURRENT
                        /\ DOMAIN histOut.filename_mapping # {}
                     THEN histOut.filename_mapping[histOut.display_options[i]]
                     ELSE <<>>]
    /\ UNCHANGED <<client, cache, view, fltDf, fltCrit, fltOut, histEnum>>

InitHistory ==
    /\ histEnum \in Enumerations
    /\ histOut = HistIdle
    /\ DashboardUnused
    /\ FilterUnused

NextHistory == ListSnapshots \/ Resolve

SpecHistory == InitHistory /\ [][NextHistory]_vars

(***************************************************************************)
(* Properties                                                              *)
(***************************************************************************)
\* A step of the clock: nothing is rendered and every entry that stays ages.
TickTaken ==
    /\ cache' # cache
    /\ view' = view
    /\ \A slot \in Slots :
          cache'[slot].present => cache[slot].present /\ cache'[slot].age > cache[slot].age

\* A step in which the script ran.
RunTaken == vars' # vars /\ ~TickTaken

SnapshotsCalled(vw) == vw.called \ {FLIGHT, META, HIST}

\* The i-th smallest element of a set of numbers.
Kth(S, k) == CHOOSE i \in S : Cardinality({j \in S : j <= i}) = k

\* C1: the filtered table is exactly the subsequence of the flight table, in
\* its row order, of the rows whose price lies in [min, max], whose
\* destination is selected (or none is), whose airline is selected (or none
\* is) and which are direct when direct only is set.
C1_FilterIsExactSubsequence ==
    fltOut.ran =>
        LET matches(r) ==
                /\ fltCrit.min_price * PriceScale <= r.price
                /\ r.price <= fltCrit.max_price * PriceScale
                /\ (fltCrit.selected_destinations = {} \/ r.dest \in fltCrit.selected_destinations)
                /\ (fltCrit.selected_airlines = {} \/ r.airline \in fltCrit.selected_airlines)
                /\ (~fltCrit.direct_only \/ r.stops = 0)
            kept == {i \in 1..Len(fltDf) : matches(fltDf[i])}
        IN /\ Len(fltOut.filtered_df) = Cardinality(kept)
           /\ \A k \in 1..Len(fltOut.filtered_df) :
                 fltOut.filtered_df[k] = fltDf[Kth(kept, k)]

C1_Witness ==
    /\ fltOut.ran
    /\ Len(fltDf) = MaxRows
    /\ Len(fltOut.filtered_df) = 1
    /\ fltOut.filtered_df[1] = fltDf[Len(fltDf)]
    /\ fltOut.filtered_df[1] # fltDf[1]
    /\ fltCrit.direct_only
    /\ fltCrit.selected_destinations # {}
    /\ fltCrit.selected_airlines # {}
    /\ fltCrit.min_price > 0

\* C2 (as claimed): a run in which a load fails shows an error, and a load
\* whose fetch failed in one run asks the storage again in the next run that
\* calls it.
C2_FailureNotRemembered ==
    [][RunTaken =>
          /\ (view'.failed # {} => "st.error" \in view'.elements)
          /\ \A slot \in (view.failed \cap view.fetched) \cap view'.called :
                slot \in view'.fetched]_vars

\* C3: an entry is served, untouched and without a fetch, while its age is
\* below its ttl (1800 s for the table and the metadata, 3600 s for the listing
\* and the snapshots) and is gone once its age reaches it; a run replaces a
\* live entry only after the refresh button cleared the store, and then every
\* entry is new and every call of that run fetched.
C3_TtlAndRefresh ==
    [][/\ \A slot \in Slots :
             cache[slot].present =>
                 cache[slot].age < (IF slot \in {FLIGHT, META} THEN 1800 ELSE 3600)
       /\ TickTaken =>
             \A slot \in Slots :
                 cache[slot].present =>
                     IF cache[slot].age + TickStep
                            >= (IF slot \in {FLIGHT, META} THEN 1800 ELSE 3600)
                     THEN ~cache'[slot].present
                     ELSE cache'[slot] = [cache[slot] EXCEPT !.age = @ + TickStep]
       /\ RunTaken /\ ~view'.after_clear =>
             \A slot \in Slots :
                 cache[slot].present =>
                     /\ cache'[slot] = cache[slot]
                     /\ slot \notin view'.executed
                     /\ slot \notin view'.fetched
       /\ RunTaken =>
             \A slot \in view'.called : ~cache[slot].present => slot \in view'.executed
       /\ RunTaken /\ view'.after_clear =>
             /\ view'.called \subseteq view'.fetched
             /\ \A slot \in Slots :
                   cache'[slot].present =>
                       cache'[slot].age = 0 /\ slot \in view'.executed]_vars

C3_Witness ==
    /\ view.after_clear
    /\ view.outcome = "done"
    /\ view.actual_blob_name # <<>>
    /\ {FLIGHT, META, HIST, SnapSlot(view.actual_blob_name)} \subseteq view.fetched

\* C4 (as claimed): no run of the script ends in an uncaught exception.
C4_NeverCrashes == view.outcome # "crashed"

\* C5 (as claimed): with the metadata absent and the flight table loaded, the
\* run completes: statistics, filters and results are rendered, the banner is
\* not, and the destinations metric is the number of distinct destinations.
C5_MetadataFailureDegrades ==
    (view.outcome # "none" /\ view.metadata.none /\ ~view.df.none) =>
        /\ view.outcome = "done"
        /\ {"summary_statistics", "filters"} \subseteq view.elements
        /\ view.elements \cap {"results_table", "no_flights_match"} # {}
        /\ "last_updated" \notin view.elements
        /\ view.destinations_metric = Cardinality({view.df.rows[i].dest : i \in 1..Len(view.df.rows)})

\* A name of the documented pattern history/flights_<date>_<time>.csv
IsPattern(name) ==
    /\ Len(name) = 4
    /\ name[1] = PREFIX /\ name[2] = FLIGHTS /\ name[4] = CSV
    /\ name[3].k = "ts" /\ name[3].t = "padded"

\* Two such names in ascending order of their text.
KeyBefore(a, b) ==
    \/ a[3].d < b[3].d
    \/ a[3].d = b[3].d /\ a[3].m < b[3].m
    \/ a[3].d = b[3].d /\ a[3].m = b[3].m /\ a[3].s < b[3].s

ListingIsTheCsvObjects ==
    LET L == histOut.history_files
        csv == {i \in 1..Len(histEnum) : EndsWith(histEnum[i].name, CSV)}
    IN /\ Len(L) = Cardinality(csv)
       /\ {L[i] : i \in 1..Len(L)} = {histEnum[i] : i \in csv}

\* C6 (as claimed): the listing holds exactly the .csv objects, newest first,
\* equal timestamps in ascending key order, so that its first entry is the
\* one snapshot that comes before every other in that order.
C6_TiesByKeyAscending ==
    histOut.listed =>
        LET L == histOut.history_files
        IN /\ ListingIsTheCsvObjects
           /\ \A i \in 1..(Len(L) - 1) :
                 \/ L[i].last_modified > L[i + 1].last_modified
                 \/ /\ L[i].last_modified = L[i + 1].last_modified
                    /\ (IsPattern(L[i].name) /\ IsPattern(L[i + 1].name)
                           => KeyBefore(L[i].name, L[i + 1].name))
           /\ \A i \in 2..Len(L) :
                 \/ L[i].last_modified < L[1].last_modified
                 \/ /\ L[i].last_modified = L[1].last_modified
                    /\ (IsPattern(L[1].name) /\ IsPattern(L[i].name)
                           => KeyBefore(L[1].name, L[i].name))

\* C6 (amended): the listing holds exactly the .csv objects, newest first,
\* equal timestamps in the order the storage enumerated them, and no entry is
\* newer than its first.
C6_TiesInEnumerationOrder ==
    histOut.listed =>
        LET L == histOut.history_files
            at(b) == CHOOSE i \in 1..Len(histEnum) : histEnum[i] = b
        IN /\ ListingIsTheCsvObjects
           /\ \A i, j \in 1..Len(L) :
                 i < j =>
                     \/ L[i].last_modified > L[j].last_modified
                     \/ L[i].last_modified = L[j].last_modified /\ at(L[i]) < at(L[j])
           /\ \A i \in 1..Len(L) : L[i].last_modified <= L[1].last_modified

C6_Witness ==
    /\ histOut.listed
    /\ Len(histOut.history_files) = 2
    /\ Len(histEnum) = 3
    /\ histOut.history_files[1].last_modified = histOut.history_files[2].last_modified
    /\ IsPattern(histOut.history_files[1].name)
    /\ IsPattern(histOut.history_files[2].name)
    /\ KeyBefore(histOut.history_files[2].name, histOut.history_files[1].name)

LabelIsUnique(options, i) == \A j \in 2..Len(options) : options[j] = options[i] => j = i

\* C7: a label of the menu that no other offered snapshot shares is mapped to
\* the key of the snapshot it was made from, and picking it resolves to that
\* key.
C7_LabelRoundTrip ==
    histOut.listed =>
        LET options == histOut.display_options
            L == histOut.history_files
        IN /\ \A i \in 2..Len(options) :
                 LabelIsUnique(options, i) =>
                     /\ options[i] \in DOMAIN histOut.filename_mapping
                     /\ histOut.filename_mapping[options[i]] = L[i].name
           /\ histOut.actual_blob_name # <<>> =>
                 \A i \in 2..Len(options) :
                     (options[i] = histOut.selected_display /\ LabelIsUnique(options, i))
                         => histOut.actual_blob_name = L[i].name

C7_Witness ==
    /\ histOut.listed
    /\ Len(histOut.display_options) = MaxEnum
    /\ LabelIsUnique(histOut.display_options, 2)
    /\ LabelIsUnique(histOut.display_options, 3)
    /\ IsPattern(histOut.history_files[2].name)
    /\ histOut.display_options[2][1].k = "fmt"
    /\ ~IsPattern(histOut.history_files[3].name)
    /\ histOut.display_options[3] = <<Lit("notes")>>
    /\ histOut.selected_display = <<Lit("notes")>>
    /\ histOut.actual_blob_name = histOut.history_files[3].name

\* C8: when the expander is reached, the menu is 'Current' followed by the
\* labels of the entries 2..11 of the listing (fewer when the listing is
\* shorter), in that order, never the first entry; with fewer than two
\* entries there is no menu, the 'no older data' note is shown and no
\* snapshot is loaded.
C8_MenuOffersOlderTen ==
    HIST \in view.called =>
        LET L == view.history_files
            options == view.display_options
        IN IF Len(L) >= 2
           THEN /\ "selectbox" \in view.elements
                /\ Len(options) = 1 + (IF Len(L) - 1 < 10 THEN Len(L) - 1 ELSE 10)
                /\ options[1] = CURRENT
                /\ \A i \in 2..Len(options) :
                      /\ options[i] = FormatHistoryName(L[i])
                      /\ options[i] # FormatHistoryName(L[1])
           ELSE /\ options = <<>>
                /\ "selectbox" \notin view.elements
                /\ "no_older_price_data" \in view.elements
                /\ SnapshotsCalled(view) = {}
                /\ "past_prices" \notin view.elements

C8_Witness ==
    /\ Len(view.history_files) = 12
    /\ Len(view.display_options) = 11
    /\ view.display_options[11] = FormatHistoryName(ArchiveBlob(2))
    /\ view.selected_display = view.display_options[2]
    /\ view.actual_blob_name = view.history_files[2].name
    /\ "past_prices" \in view.elements

\* C9: the refresh button is drawn only in a run whose flight table and
\* metadata are both present; the store is cleared only through the button
\* the last run drew; after a run without metadata no run replaces a live
\* entry.
C9_RefreshNeedsBothLoads ==
    [][/\ "refresh_button" \in view.elements =>
             /\ ~view.df.none
             /\ ~view.metadata.none
             /\ view.metadata.tag # "empty"
       /\ RunTaken /\ view'.after_clear => "refresh_button" \in view.elements
       /\ (RunTaken /\ view.outcome # "none"
              /\ (view.metadata.none \/ view.metadata.tag = "empty")) =>
             /\ ~view'.after_clear
             /\ \A slot \in Slots : cache[slot].present => cache'[slot] = cache[slot]]_vars

C9_Witness ==
    /\ view.outcome = "done"
    /\ view.metadata.none
    /\ META \in view.called
    /\ META \notin view.executed
    /\ cache[FLIGHT].present
    /\ "refresh_button" \notin view.elements

\* C10: a snapshot is loaded only when the selection is not 'Current' and the
\* mapping of that run is not empty; the selection is then a key of the
\* mapping, the lookup does not fail, and the key loaded is that of a
\* snapshot the menu of that run offers.
C10_SelectionResolves ==
    /\ view.outcome # "crashed"
    /\ "selectbox" \in view.elements => view.selected_display \in Range(view.display_options)
    /\ SnapshotsCalled(view) # {} =>
          /\ view.selected_display # CURRENT
          /\ DOMAIN view.filename_mapping # {}
          /\ view.selected_display \in DOMAIN view.filename_mapping
          /\ SnapshotsCalled(view) = {SnapSlot(view.actual_blob_name)}
          /\ view.actual_blob_name = view.filename_mapping[view.selected_display]
          /\ \E i \in 2..Len(view.display_options) :
                view.history_files[i].name = view.actual_blob_name

C10_Witness ==
    /\ SnapshotsCalled(view) # {}
    /\ HIST \in view.executed
    /\ ~view.after_clear
    /\ Len(view.history_files) = 12
    /\ view.actual_blob_name = ArchiveName(2)

====
